---- MODULE Spec2Model ----
(***************************************************************************)
(* State-machine model of src/App.tsx: the vertical video feed (App,       *)
(* ReelItem) and the narrative chat overlay (ChatPanel).                   *)
(*                                                                         *)
(* One action models one event handler together with the React commit it   *)
(* causes: the state updates of the handler are batched, the tree is       *)
(* re-rendered once and the effects whose dependencies changed run before  *)
(* the next event is dispatched.                                           *)
(***************************************************************************)
EXTENDS Integers, Sequences, FiniteSets, Bags, TLC

(***************************************************************************)
(* Bounds of the model.                                                    *)
(***************************************************************************)
\* Episodes of the catalog, from the first, that the feed shows.
FeedLen == 2
\* Length of the media in ticks of the media clock.
MediaDur == 2
\* Observation entries delivered in one IntersectionObserver callback.
MaxBatch == 2
\* Icon timeouts that may be pending at once for one feed item.
MaxTimers == 2
\* History length up to which the viewer keeps submitting.
MaxMessages == 3
\* Backend calls that may be unanswered at once.
MaxInFlight == 2

(***************************************************************************)
(* JavaScript numbers: NaN, +Infinity and the non-negative rationals n/d   *)
(* in lowest terms (the media clock and the percentages never go negative).*)
(***************************************************************************)
RECURSIVE Gcd(_, _)
Gcd(a, b) == IF b = 0 THEN a ELSE Gcd(b, a % b)

NaN == [t |-> "nan", n |-> 0, d |-> 1]
Infinity == [t |-> "inf", n |-> 0, d |-> 1]
Fin(n, d) == LET g == Gcd(n, d) IN [t |-> "fin", n |-> n \div g, d |-> d \div g]
Num(n) == Fin(n, 1)
Zero == Num(0)

IsNaN(x) == x.t = "nan"
IsFinite(x) == x.t = "fin"
IsZero(x) == x.t = "fin" /\ x.n = 0

\* a / b
JsDiv(a, b) ==
    IF IsNaN(a) \/ IsNaN(b) THEN NaN
    ELSE IF a.t = "inf" THEN (IF b.t = "inf" THEN NaN ELSE Infinity)
    ELSE IF b.t = "inf" THEN Zero
    ELSE IF IsZero(b) THEN (IF IsZero(a) THEN NaN ELSE Infinity)
    ELSE Fin(a.n * b.d, a.d * b.n)

\* a * b
JsMul(a, b) ==
    IF IsNaN(a) \/ IsNaN(b) THEN NaN
    ELSE IF a.t = "inf" \/ b.t = "inf"
         THEN (IF IsZero(a) \/ IsZero(b) THEN NaN ELSE Infinity)
    ELSE Fin(a.n * b.n, a.d * b.d)

\* a + b, for finite a and b
JsAdd(a, b) == Fin(a.n * b.d + b.n * a.d, a.d * b.d)

\* a <= b, for finite a and b
JsLeq(a, b) == a.n * b.d <= b.n * a.d

\* x || y
JsOr(x, y) == IF IsNaN(x) \/ IsZero(x) THEN y ELSE x

(***************************************************************************)
(* Text.  A text is a sequence of characters.  Texts whose characters the  *)
(* program never inspects (hooks, labels, canned lines) are one opaque     *)
(* token long.                                                             *)
(***************************************************************************)
Whitespace == {" "}

RECURSIVE TrimStart(_)
TrimStart(s) ==
    IF s # <<>> /\ Head(s) \in Whitespace THEN TrimStart(Tail(s)) ELSE s

RECURSIVE TrimEnd(_)
TrimEnd(s) ==
    IF s # <<>> /\ s[Len(s)] \in Whitespace
    THEN TrimEnd(SubSeq(s, 1, Len(s) - 1)) ELSE s

\* A mistaken trim that leaves the text as typed.
TrimNothing(s) == s

\* String.prototype.trim
Trim(s) == TrimEnd(TrimStart(s))

(***************************************************************************)
(* Static content.                                                         *)
(***************************************************************************)
HEART_BEATS_DATA ==
    [episodes |-> <<
        [id |-> 1, label |-> "Episode 01", triggers |-> <<
            [char |-> "Priyank", hook |-> <<"Did you see that? I think she's onto us. What should I say to her?">>],
            [char |-> "Arzoo", hook |-> <<"I have a feeling something is about to go wrong... do you trust him?">>] >>],
        [id |-> 2, label |-> "Episode 02", triggers |-> <<
            [char |-> "Priyank", hook |-> <<"The way he looked at her just now... I don't know if I can handle this. What's my next move?">>],
            [char |-> "Arzoo", hook |-> <<"I've been holding back so much. Do you think he even realizes what he's doing?">>] >>],
        [id |-> 3, label |-> "Episode 03", triggers |-> <<
            [char |-> "Priyank", hook |-> <<"It's getting intense. Who do you think is hiding the bigger secret here?">>],
            [char |-> "Arzoo", hook |-> <<"The mystery is deepening. Can we really trust anyone in this room?">>] >>],
        [id |-> 4, label |-> "Episode 04", triggers |-> <<
            [char |-> "Priyank", hook |-> <<"This is it. The moment of truth. What would you do in my place?">>],
            [char |-> "Arzoo", hook |-> <<"It's all coming to an end. Was any of it even real?">>] >>] >>]

\* Feed items carry data-index 0 .. length-1.
Items == 0 .. ((IF FeedLen < Len(HEART_BEATS_DATA.episodes)
                THEN FeedLen ELSE Len(HEART_BEATS_DATA.episodes)) - 1)
Episode(i) == HEART_BEATS_DATA.episodes[i + 1]
Triggers(i) == 1 .. Len(Episode(i).triggers)

Placeholder == <<"I'm lost in the moment...">>
Fallback == <<"The signal is weak... can you say that again?">>

VARIABLES
    view,          \* App: 'home' | 'feed'
    activeIdx,     \* App: index of the active feed item
    isMuted,       \* App: shared mute flag
    chatData,      \* App: the open trigger, or NoChatData
    video,         \* per mounted feed item: its <video> element
    reel,          \* per mounted feed item: the ReelItem hooks
    timers,        \* per mounted feed item: pending icon timeouts
    panel,         \* whether a ChatPanel instance is mounted
    messages,      \* ChatPanel: history
    inputValue,    \* ChatPanel: text of the input box
    isTyping,      \* ChatPanel: pending flag
    chatInstance,  \* ChatPanel: chatInstance.current
    inflight,      \* bag of the sendMessage calls not yet settled
    last           \* the handler that ran last, and what the claims need of it

feedVars == <<view, activeIdx, isMuted, video, reel, timers>>
chatVars == <<chatData, panel, messages, inputValue, isTyping, chatInstance, inflight>>
vars == <<view, activeIdx, isMuted, chatData, video, reel, timers,
          panel, messages, inputValue, isTyping, chatInstance, inflight, last>>

(***************************************************************************)
(* The <video> element of a feed item.                                     *)
(***************************************************************************)
\* A new element: paused, at time 0, duration unknown until metadata loads.
NewVideo == [paused |-> TRUE, currentTime |-> Zero, duration |-> NaN, muted |-> FALSE]

\* muted={isMuted}: a render of the item gives its element the flag.
Render(v, muted) == [v EXCEPT !.muted = muted]

\* Durations the loaded metadata may report.
Durations == {Zero, Num(MediaDur), Infinity}

\* video.play(): starts playback unless the environment denies it.
Play(v, allowed) == IF allowed THEN [v EXCEPT !.paused = FALSE] ELSE v

\* A play() whose promise is left without a handler: a rejection stays one.
Uncaught(rejected) == rejected

\* play().catch(() => {}): the rejection, if any, ends in the empty handler.
Catch(rejected) == FALSE

\* video.pause()
Pause(v) == [v EXCEPT !.paused = TRUE]

\* video.currentTime = x, for a finite x: seeks, no further than the end.
Seek(v, x) ==
    [v EXCEPT !.currentTime =
        IF IsFinite(v.duration) /\ ~JsLeq(x, v.duration) THEN v.duration ELSE x]

\* Assigning a non-finite number to currentTime throws a TypeError.
SeekThrows(x) == ~IsFinite(x)

(***************************************************************************)
(* ReelItem.                                                               *)
(***************************************************************************)
NewReel ==
    [loading |-> TRUE, isPlaying |-> TRUE, progress |-> Zero, duration |-> Zero,
     currentTime |-> Zero, showPlayIcon |-> "null", iconTimeoutRef |-> 0]

\* An activation effect that starts playback without rewinding.
EffectVideoNoRewind(v, isActive, allowed) ==
    IF isActive THEN Play(v, allowed) ELSE Pause(v)

\* An effect that lets the item that is no longer active play on.
EffectVideoNoPause(v, isActive, allowed) ==
    IF isActive THEN Play(Seek(v, Zero), allowed) ELSE v

\* The effect on [isActive], on the element.
EffectVideo(v, isActive, allowed) ==
    IF isActive THEN Play(Seek(v, Zero), allowed) ELSE Pause(v)

\* The effect on [isActive], on the hooks.
EffectReel(r, isActive) == [r EXCEPT !.isPlaying = isActive]

\* An item nothing but activation has acted on since it was mounted.
Pristine(i) ==
    /\ video[i].currentTime = Zero
    /\ video[i].duration = NaN
    /\ reel[i] = [NewReel EXCEPT !.isPlaying = reel[i].isPlaying]
    /\ timers[i] = {}

\* During one visit of the feed the media events and the controls of one
\* item are exercised, whichever item that is: the handlers of an item read
\* and write that item's element and hooks only.  Activation acts on every
\* item.
MayTouch(i) == \A j \in Items \ {i} : Pristine(j)

(***************************************************************************)
(* ChatPanel.                                                              *)
(***************************************************************************)
NoChatData == [char |-> "", hook |-> <<>>]
NoChat == [character |-> "", episodeLabel |-> ""]

\* A pending call is known by what became of its issuer: whether the
\* ChatPanel instance whose setters its continuation holds is still mounted,
\* and whether the Chat object it was sent on is still chatInstance.current.
NewCall == [mounted |-> TRUE, current |-> TRUE]
Superseded(c) == [c EXCEPT !.current = FALSE]
Unmounted(c) == [mounted |-> FALSE, current |-> FALSE]

Fresh(used) == CHOOSE n \in 1 .. (Cardinality(used) + 1) : n \notin used

OpeningLine(cd) == [role |-> "model", text |-> cd.hook]

NoLast == [op |-> "init"]

Init ==
    /\ view = "home"
    /\ activeIdx = 0
    /\ isMuted = FALSE
    /\ chatData = NoChatData
    /\ video = [i \in Items |-> NewVideo]
    /\ reel = [i \in Items |-> NewReel]
    /\ timers = [i \in Items |-> {}]
    /\ panel = FALSE
    /\ messages = <<>>
    /\ inputValue = <<>>
    /\ isTyping = FALSE
    /\ chatInstance = NoChat
    /\ inflight = EmptyBag
    /\ last = NoLast

(***************************************************************************)
(* App: the feed.                                                          *)
(***************************************************************************)
\* data-index={index}
DataIndex(i) == ToString(i)

\* parseInt(entry.target.getAttribute('data-index') || '0')
ParseIndex(attr) ==
    LET str == IF attr = "" THEN "0" ELSE attr
    IN  CHOOSE n \in 0 .. 9 : ToString(n) = str

Entries == [target : {DataIndex(i) : i \in Items}, isIntersecting : BOOLEAN]
Batches == UNION {[1 .. n -> Entries] : n \in 1 .. MaxBatch}

\* An observer callback in which the first intersecting entry wins.
RECURSIVE SelectedFirst(_, _)
SelectedFirst(entries, cur) ==
    IF entries = <<>> THEN cur
    ELSE IF Head(entries).isIntersecting THEN ParseIndex(Head(entries).target)
    ELSE SelectedFirst(Tail(entries), cur)

\* entries.forEach(entry => { if (entry.isIntersecting) setActiveIdx(index) })
RECURSIVE Selected(_, _)
Selected(entries, cur) ==
    IF entries = <<>> THEN cur
    ELSE Selected(Tail(entries),
                  IF Head(entries).isIntersecting
                  THEN ParseIndex(Head(entries).target) ELSE cur)

\* The indices one callback can select, per current index.
Selections == [cur \in Items |-> {Selected(batch, cur) : batch \in Batches}]

\* A commit that runs the effect of the selected item on every callback,
\* whether or not activeIdx changed.
FeedCommitAlways(idx, allowed) ==
    /\ activeIdx' = idx
    /\ video' = [i \in Items |->
                    IF i \in {idx, activeIdx}
                    THEN EffectVideo(video[i], i = idx, allowed) ELSE video[i]]
    /\ reel' = [i \in Items |->
                    IF i \in {idx, activeIdx}
                    THEN EffectReel(reel[i], i = idx) ELSE reel[i]]

\* The commit of the feed after activeIdx became idx: the [isActive] effect
\* runs in the items whose isActive changed.
FeedCommit(idx, allowed) ==
    /\ activeIdx' = idx
    /\ video' = [i \in Items |->
                    IF idx # activeIdx /\ i \in {idx, activeIdx}
                    THEN EffectVideo(video[i], i = idx, allowed) ELSE video[i]]
    /\ reel' = [i \in Items |->
                    IF idx # activeIdx /\ i \in {idx, activeIdx}
                    THEN EffectReel(reel[i], i = idx) ELSE reel[i]]

\* An overlay that is hidden on close and keeps its instance: opening runs
\* initChat and nothing else.
ChatCommitKeeping(cd, idx) ==
    /\ chatData' = cd
    /\ IF cd = NoChatData
       THEN /\ panel' = FALSE
            /\ UNCHANGED <<messages, inputValue, isTyping, chatInstance, inflight>>
       ELSE /\ panel' = TRUE
            /\ messages' = <<OpeningLine(cd)>>
            /\ chatInstance' = [character |-> cd.char, episodeLabel |-> Episode(idx).label]
            /\ inflight' = BagOfAll(Superseded, inflight)
            /\ UNCHANGED <<inputValue, isTyping>>

\* The commit of <ChatPanel> after App rendered with chatData cd and
\* activeIdx idx.  A first render mounts a new instance and runs initChat;
\* a later render runs initChat again when character, episodeLabel or
\* initialHook differ from the previous render's; no chatData unmounts.
ChatCommit(cd, idx) ==
    LET label == Episode(idx).label
        created == [character |-> cd.char, episodeLabel |-> label]
    IN  /\ chatData' = cd
        /\ IF cd = NoChatData
           THEN /\ panel' = FALSE
                /\ messages' = <<>>
                /\ inputValue' = <<>>
                /\ isTyping' = FALSE
                /\ chatInstance' = NoChat
                /\ inflight' = BagOfAll(Unmounted, inflight)
           ELSE IF ~panel
           THEN /\ panel' = TRUE
                /\ messages' = <<OpeningLine(cd)>>
                /\ inputValue' = <<>>
                /\ isTyping' = FALSE
                /\ chatInstance' = created
                /\ inflight' = inflight
           ELSE IF \/ cd.char # chatData.char
                   \/ label # Episode(activeIdx).label
                   \/ cd.hook # chatData.hook
           THEN /\ messages' = <<OpeningLine(cd)>>
                /\ chatInstance' = created
                /\ inflight' = BagOfAll(Superseded, inflight)
                /\ UNCHANGED <<panel, inputValue, isTyping>>
           ELSE UNCHANGED <<panel, messages, inputValue, isTyping, chatInstance, inflight>>

\* The home thumbnail's onClick: the feed mounts, every item's effect runs.
EnterFeed ==
    /\ view = "home"
    /\ \E allowed \in BOOLEAN :
        /\ view' = "feed"
        /\ video' = [i \in Items |->
                        EffectVideo(Render(NewVideo, isMuted), i = activeIdx, allowed)]
        /\ reel' = [i \in Items |-> EffectReel(NewReel, i = activeIdx)]
        /\ last' = [op |-> "enterFeed", idx |-> activeIdx, allowed |-> allowed,
                    unhandled |-> Catch(~allowed)]
    /\ UNCHANGED <<activeIdx, isMuted, timers>>
    /\ UNCHANGED chatVars

\* A way home that leaves chatData as it is.
GoHomeKeepingChat ==
    /\ view = "feed"
    /\ view' = "home"
    /\ video' = [i \in Items |-> NewVideo]
    /\ reel' = [i \in Items |-> NewReel]
    /\ timers' = [i \in Items |-> {}]
    /\ last' = [op |-> "goHome"]
    /\ UNCHANGED <<activeIdx, isMuted>>
    /\ UNCHANGED chatVars

\* The header's logo and close button: back to home, the feed and the
\* overlay unmount.  The icon timeouts of the unmounted items act on
\* nothing any more and are dropped with them.
GoHome ==
    /\ view = "feed"
    /\ view' = "home"
    /\ video' = [i \in Items |-> NewVideo]
    /\ reel' = [i \in Items |-> NewReel]
    /\ timers' = [i \in Items |-> {}]
    /\ ChatCommit(NoChatData, activeIdx)
    /\ last' = [op |-> "goHome"]
    /\ UNCHANGED <<activeIdx, isMuted>>

\* The IntersectionObserver callback, on one batch of entries.  The
\* environment may deny the play() of the effect when it would start the
\* element; an element that is playing has been let play already.
ObserveCommit(idx, batch) ==
    /\ \E allowed \in (IF idx # activeIdx /\ video[idx].paused THEN BOOLEAN ELSE {TRUE}) :
            /\ FeedCommit(idx, allowed)
            /\ ChatCommit(chatData, idx)
            /\ last' = [op |-> "observe", idx |-> idx, prev |-> activeIdx,
                        t0 |-> video[idx].currentTime, allowed |-> allowed,
                        unhandled |-> idx # activeIdx /\ Catch(~allowed),
                        batch |-> batch]
    /\ UNCHANGED <<view, isMuted, timers>>

\* The callback on some batch, known by the index it selects.
Observe ==
    /\ view = "feed"
    /\ \E idx \in Selections[activeIdx] : ObserveCommit(idx, <<>>)

\* The callback on some batch, the batch kept on record.
ObserveBatch ==
    /\ view = "feed"
    /\ \E batch \in Batches : ObserveCommit(Selected(batch, activeIdx), batch)

\* A mute button that re-renders the item it belongs to and no other.
ToggleMuteOne(i) ==
    /\ view = "feed"
    /\ isMuted' = ~isMuted
    /\ video' = [video EXCEPT ![i] = Render(video[i], ~isMuted)]
    /\ last' = [op |-> "toggleMute", idx |-> i]
    /\ UNCHANGED <<view, activeIdx, reel, timers>>
    /\ UNCHANGED chatVars

\* The mute button of item i: setIsMuted(!isMuted) in App, which renders
\* every item with the new flag.
ToggleMute(i) ==
    /\ view = "feed"
    /\ isMuted' = ~isMuted
    /\ video' = [j \in Items |-> Render(video[j], ~isMuted)]
    /\ last' = [op |-> "toggleMute", idx |-> i]
    /\ UNCHANGED <<view, activeIdx, reel, timers>>
    /\ UNCHANGED chatVars

\* Trigger button k of item i: onEnterStory(char, hook).
EnterStory(i, k) ==
    /\ view = "feed"
    /\ LET trigger == Episode(i).triggers[k]
       IN  ChatCommit([char |-> trigger.char, hook |-> trigger.hook], activeIdx)
    /\ last' = [op |-> "enterStory", replaced |-> panel, pending |-> isTyping]
    /\ UNCHANGED feedVars

\* The overlay's close button: onClose.
CloseChat ==
    /\ panel
    /\ ChatCommit(NoChatData, activeIdx)
    /\ last' = [op |-> "closeChat"]
    /\ UNCHANGED feedVars

(***************************************************************************)
(* ReelItem: media events and controls of feed item i.                     *)
(***************************************************************************)
\* Positions of the seek bar offered to the viewer.
SeekSteps == 2

\* <input type="range" min="0" max="100" step="0.1">: its value, in tenths.
SliderValues == {(k * 1000) \div SeekSteps : k \in 0 .. SeekSteps}

\* parseFloat(e.target.value)
ParseFloat(tenths) == Fin(tenths, 10)

\* A progress computation without the fallback to 0.
ProgressUnguarded(cur, dur) == JsMul(JsDiv(cur, dur), Num(100))

\* const p = (cur / dur) * 100; setProgress(p || 0)
Progress(cur, dur) == JsOr(JsMul(JsDiv(cur, dur), Num(100)), Zero)

\* onLoadedMetadata: the element learns its duration d.
LoadedMetadata(i) ==
    /\ view = "feed"
    /\ MayTouch(i)
    /\ IsNaN(video[i].duration)
    /\ \E d \in Durations :
        /\ video' = [video EXCEPT ![i].duration = d]
        /\ reel' = [reel EXCEPT ![i].duration = d]
    /\ last' = [op |-> "loadedMetadata", idx |-> i]
    /\ UNCHANGED <<view, activeIdx, isMuted, timers>>
    /\ UNCHANGED chatVars

\* onCanPlay
CanPlay(i) ==
    /\ view = "feed"
    /\ MayTouch(i)
    /\ ~IsNaN(video[i].duration)
    /\ reel' = [reel EXCEPT ![i].loading = FALSE]
    /\ last' = [op |-> "canPlay", idx |-> i]
    /\ UNCHANGED <<view, activeIdx, isMuted, video, timers>>
    /\ UNCHANGED chatVars

\* The media clock of a playing element moves one tick; at the end the
\* element loops to the start.
MediaAdvance(i) ==
    /\ view = "feed"
    /\ MayTouch(i)
    /\ ~video[i].paused
    /\ ~IsNaN(video[i].duration)
    /\ LET next == JsAdd(video[i].currentTime, Num(1))
           end == IF IsFinite(video[i].duration) THEN video[i].duration ELSE Num(MediaDur)
       IN  video' = [video EXCEPT ![i].currentTime = IF JsLeq(next, end) THEN next ELSE Zero]
    /\ last' = [op |-> "advance", idx |-> i]
    /\ UNCHANGED <<view, activeIdx, isMuted, reel, timers>>
    /\ UNCHANGED chatVars

\* onTimeUpdate
HandleTimeUpdate(i) ==
    /\ view = "feed"
    /\ MayTouch(i)
    /\ LET cur == video[i].currentTime
           dur == video[i].duration
       IN  reel' = [reel EXCEPT ![i].currentTime = cur,
                                ![i].duration = dur,
                                ![i].progress = Progress(cur, dur)]
    /\ last' = [op |-> "timeUpdate", idx |-> i]
    /\ UNCHANGED <<view, activeIdx, isMuted, video, timers>>
    /\ UNCHANGED chatVars

\* A target time that takes the percentage for a fraction.
SeekTimeOfFraction(newProgress, dur) == JsMul(newProgress, dur)

\* const newTime = (newProgress / 100) * videoRef.current.duration
SeekTime(newProgress, dur) == JsMul(JsDiv(newProgress, Num(100)), dur)

\* The seek bar's onChange.  An assignment of a non-finite time throws, and
\* the handler ends there.
HandleSeek(i) ==
    /\ view = "feed"
    /\ MayTouch(i)
    /\ \E value \in SliderValues :
        LET newProgress == ParseFloat(value)
            newTime == SeekTime(newProgress, video[i].duration)
        IN  /\ IF SeekThrows(newTime)
               THEN UNCHANGED <<video, reel>>
               ELSE /\ video' = [video EXCEPT ![i] = Seek(video[i], newTime)]
                    /\ reel' = [reel EXCEPT ![i].progress = newProgress]
            /\ last' = [op |-> "seek", idx |-> i, value |-> value,
                        threw |-> SeekThrows(newTime)]
    /\ UNCHANGED <<view, activeIdx, isMuted, timers>>
    /\ UNCHANGED chatVars

\* triggerIcon(type), on the hooks of item i.
TriggerIconReel(r, pending, type) ==
    [r EXCEPT !.showPlayIcon = type,
              !.iconTimeoutRef = Fresh(pending \ {r.iconTimeoutRef})]

\* A triggerIcon that schedules the new timeout and cancels none.
TriggerIconTimersKeeping(r, pending) == pending \cup {Fresh(pending)}

\* triggerIcon(type), on the pending timeouts of item i.
TriggerIconTimers(r, pending) ==
    (pending \ {r.iconTimeoutRef}) \cup {Fresh(pending \ {r.iconTimeoutRef})}

\* A togglePlay that goes by the controller's isPlaying flag, not by the
\* element.
TogglePlayByFlag(i) ==
    /\ view = "feed"
    /\ MayTouch(i)
    /\ Cardinality(timers[i] \ {reel[i].iconTimeoutRef}) < MaxTimers
    /\ LET type == IF reel[i].isPlaying THEN "pause" ELSE "play"
       IN  /\ video' = [video EXCEPT ![i] =
                           IF reel[i].isPlaying THEN Pause(video[i]) ELSE Play(video[i], TRUE)]
           /\ reel' = [reel EXCEPT ![i] =
                          TriggerIconReel([reel[i] EXCEPT !.isPlaying = ~reel[i].isPlaying],
                                          timers[i], type)]
           /\ timers' = [timers EXCEPT ![i] = TriggerIconTimers(reel[i], timers[i])]
    /\ last' = [op |-> "togglePlay", idx |-> i, wasPaused |-> video[i].paused,
                shownPlaying |-> reel[i].isPlaying,
                again |-> last.op = "togglePlay" /\ last.idx = i,
                cancelled |-> reel[i].iconTimeoutRef \in timers[i]]
    /\ UNCHANGED <<view, activeIdx, isMuted>>
    /\ UNCHANGED chatVars

\* A tap on the video: togglePlay.  The tap is a user activation, so the
\* environment lets play() start.
TogglePlay(i) ==
    /\ view = "feed"
    /\ MayTouch(i)
    /\ Cardinality(timers[i] \ {reel[i].iconTimeoutRef}) < MaxTimers
    /\ LET type == IF video[i].paused THEN "play" ELSE "pause"
       IN  /\ video' = [video EXCEPT ![i] =
                           IF video[i].paused THEN Play(video[i], TRUE) ELSE Pause(video[i])]
           /\ reel' = [reel EXCEPT ![i] =
                          TriggerIconReel([reel[i] EXCEPT !.isPlaying = video[i].paused],
                                          timers[i], type)]
           /\ timers' = [timers EXCEPT ![i] = TriggerIconTimers(reel[i], timers[i])]
    /\ last' = [op |-> "togglePlay", idx |-> i, wasPaused |-> video[i].paused,
                shownPlaying |-> reel[i].isPlaying,
                again |-> last.op = "togglePlay" /\ last.idx = i,
                cancelled |-> reel[i].iconTimeoutRef \in timers[i]]
    /\ UNCHANGED <<view, activeIdx, isMuted>>
    /\ UNCHANGED chatVars

\* The callback of a pending icon timeout: setShowPlayIcon(null).
IconTimeout(i) ==
    /\ view = "feed"
    /\ \E id \in timers[i] :
        /\ timers' = [timers EXCEPT ![i] = timers[i] \ {id}]
        /\ reel' = [reel EXCEPT ![i].showPlayIcon = "null"]
        /\ last' = [op |-> "iconTimeout", idx |-> i, id |-> id,
                    shown |-> reel[i].showPlayIcon]
    /\ UNCHANGED <<view, activeIdx, isMuted, video>>
    /\ UNCHANGED chatVars

(***************************************************************************)
(* ChatPanel: input, submit, and the settling of a backend call.           *)
(***************************************************************************)
\* Texts the viewer types: nothing, a blank, and a message padded with blanks.
InputTexts == {<<>>, <<" ">>, <<" ", "h", "i", " ">>}

\* What sendMessage may settle with: a result whose text is a reply, is
\* empty or is undefined, or a rejection.
SendResults ==
    {[ok |-> TRUE, defined |-> TRUE, text |-> <<"Trust me on this. What would you do?">>],
     [ok |-> TRUE, defined |-> TRUE, text |-> <<>>],
     [ok |-> TRUE, defined |-> FALSE, text |-> <<>>],
     [ok |-> FALSE, defined |-> FALSE, text |-> <<>>]}

\* A reply taken as it comes.
ResponseTextRaw(result) == result.text

\* result.text || "I'm lost in the moment..."
ResponseText(result) ==
    IF result.defined /\ result.text # <<>> THEN result.text ELSE Placeholder

\* The input's onChange.
TypeInput ==
    /\ panel
    /\ \E s \in InputTexts \ {inputValue} : inputValue' = s
    /\ last' = [op |-> "typeInput"]
    /\ UNCHANGED <<chatData, panel, messages, isTyping, chatInstance, inflight>>
    /\ UNCHANGED feedVars

\* handleSend, up to the await.
HandleSend ==
    /\ panel
    /\ IF Trim(inputValue) = <<>> \/ chatInstance = NoChat
       THEN /\ UNCHANGED <<messages, inputValue, isTyping, inflight>>
            /\ last' = [op |-> "handleSend", accepted |-> FALSE, pending |-> isTyping]
       ELSE /\ Len(messages) < MaxMessages
            /\ BagCardinality(inflight) < MaxInFlight
            /\ inputValue' = <<>>
            /\ messages' = Append(messages, [role |-> "user", text |-> Trim(inputValue)])
            /\ isTyping' = TRUE
            /\ inflight' = inflight (+) SetToBag({NewCall})
            /\ last' = [op |-> "handleSend", accepted |-> TRUE, pending |-> isTyping]
    /\ UNCHANGED <<chatData, panel, chatInstance>>
    /\ UNCHANGED feedVars

\* Where the issuer of call c stands now.
Standing(c) ==
    IF ~c.mounted THEN "closed" ELSE IF ~c.current THEN "replaced" ELSE "current"

\* A continuation that sends the message again when the call fails.
SettleRetrying(c, result) ==
    /\ BagIn(c, inflight)
    /\ inflight' = IF result.ok THEN inflight (-) SetToBag({c}) ELSE inflight
    /\ IF c.mounted
       THEN /\ messages' = Append(messages,
                    [role |-> "model",
                     text |-> IF result.ok THEN ResponseText(result) ELSE Fallback])
            /\ isTyping' = FALSE
       ELSE UNCHANGED <<messages, isTyping>>
    /\ last' = [op |-> "settle", result |-> result, standing |-> Standing(c)]
    /\ UNCHANGED <<chatData, panel, inputValue, chatInstance>>
    /\ UNCHANGED feedVars

\* handleSend, from the await on: sendMessage settled with result.  The
\* state setters of an unmounted instance do nothing.
Settle(c, result) ==
    /\ BagIn(c, inflight)
    /\ inflight' = inflight (-) SetToBag({c})
    /\ IF c.mounted
       THEN /\ messages' = Append(messages,
                    [role |-> "model",
                     text |-> IF result.ok THEN ResponseText(result) ELSE Fallback])
            /\ isTyping' = FALSE
       ELSE UNCHANGED <<messages, isTyping>>
    /\ last' = [op |-> "settle", result |-> result, standing |-> Standing(c)]
    /\ UNCHANGED <<chatData, panel, inputValue, chatInstance>>
    /\ UNCHANGED feedVars

(***************************************************************************)
(* Specifications.  Each exercises the whole of App (entering and leaving  *)
(* the feed, observation batches) and one group of handlers; the handlers  *)
(* it leaves out write none of the variables its claims read.              *)
(***************************************************************************)
\* Playback: activation, the media clock and manual toggles.
NextFeed ==
    \/ EnterFeed
    \/ GoHome
    \/ Observe
    \/ \E i \in Items : LoadedMetadata(i)
    \/ \E i \in Items : MediaAdvance(i)
    \/ \E i \in Items : TogglePlay(i)

SpecFeed == Init /\ [][NextFeed]_vars

\* Progress: time updates and seeks.
NextProgress ==
    \/ EnterFeed
    \/ GoHome
    \/ Observe
    \/ \E i \in Items : LoadedMetadata(i)
    \/ \E i \in Items : CanPlay(i)
    \/ \E i \in Items : MediaAdvance(i)
    \/ \E i \in Items : HandleTimeUpdate(i)
    \/ \E i \in Items : HandleSeek(i)

SpecProgress == Init /\ [][NextProgress]_vars

\* Chat: the overlay's sessions.
NextChat ==
    \/ EnterFeed
    \/ GoHome
    \/ Observe
    \/ \E i \in Items : \E k \in Triggers(i) : EnterStory(i, k)
    \/ CloseChat
    \/ TypeInput
    \/ HandleSend
    \/ \E c \in BagToSet(inflight) : \E result \in SendResults : Settle(c, result)

SpecChat == Init /\ [][NextChat]_vars

\* Some unanswered call is answered.
SettleSome == \E c \in BagToSet(inflight) : \E result \in SendResults : Settle(c, result)

\* Chat, with a backend that answers every call in the end.
SpecChatLive == Init /\ [][NextChat]_vars /\ WF_vars(SettleSome)

\* Selection: observation batches, entry by entry.
NextObserve ==
    \/ EnterFeed
    \/ GoHome
    \/ ObserveBatch
    \/ \E i \in Items : LoadedMetadata(i)

SpecObserve == Init /\ [][NextObserve]_vars

\* Indicator: taps and icon timeouts; a scheduled timeout fires in the end.
NextIcon ==
    \/ EnterFeed
    \/ GoHome
    \/ Observe
    \/ \E i \in Items : LoadedMetadata(i)
    \/ \E i \in Items : MediaAdvance(i)
    \/ \E i \in Items : TogglePlay(i)
    \/ \E i \in Items : IconTimeout(i)

SpecIcon == Init /\ [][NextIcon]_vars /\ \A i \in Items : WF_vars(IconTimeout(i))

\* Controls: manual toggles, the mute button and the icon timeouts.
NextControls ==
    \/ EnterFeed
    \/ GoHome
    \/ Observe
    \/ \E i \in Items : LoadedMetadata(i)
    \/ \E i \in Items : CanPlay(i)
    \/ \E i \in Items : MediaAdvance(i)
    \/ \E i \in Items : HandleTimeUpdate(i)
    \/ \E i \in Items : TogglePlay(i)
    \/ \E i \in Items : IconTimeout(i)
    \/ \E i \in Items : ToggleMute(i)

SpecControls == Init /\ [][NextControls]_vars

Next ==
    \/ NextFeed
    \/ NextProgress
    \/ NextChat
    \/ \E i \in Items : ToggleMute(i)
    \/ \E i \in Items : IconTimeout(i)

Spec == Init /\ [][Next]_vars

(***************************************************************************)
(* Claims.                                                                 *)
(***************************************************************************)
Playing == {i \in Items : ~video[i].paused}

\* C1: in every reachable state at most one feed item's media is playing
\* (not paused), whatever observation batches, taps and media events came.
AtMostOnePlaying == Cardinality(Playing) <= 1

\* C2: a step that changes activeIdx to another item leaves that item's
\* media at time 0, whatever time it had reached, so playback starts there.
ActivationRewinds ==
    [][(view = "feed" /\ view' = "feed" /\ activeIdx' # activeIdx)
        => video'[activeIdx'].currentTime = Zero]_vars

\* An item that had played on to a later time was activated again, and
\* plays from 0.
RewoundOnActivation ==
    /\ view = "feed"
    /\ last.op = "observe"
    /\ last.idx # last.prev
    /\ last.t0 # Zero
    /\ activeIdx = last.idx
    /\ video[activeIdx].currentTime = Zero
    /\ ~video[activeIdx].paused

\* C3: while the session is pending, submit is a no-op: it appends no
\* message and issues no backend call.
SubmitWhilePendingIgnored ==
    [][(isTyping /\ last'.op = "handleSend")
        => (messages' = messages /\ inflight' = inflight)]_vars

\* C4: a reply or failure that arrives after its session was closed or
\* replaced changes neither the history nor the pending flag.
StaleReplyIgnored ==
    [][(last'.op = "settle" /\ last'.standing # "current")
        => (messages' = messages /\ isTyping' = isTyping)]_vars

\* A step in which a trigger opens a session: the overlay mounts, or the
\* open overlay is given another trigger.
Opens ==
    /\ last'.op = "enterStory"
    /\ ~panel \/ chatData' # chatData

\* C5: opening a session with hook X yields the history <<{model, X}>> with
\* pending false, and no submit is accepted on an empty history.
OpeningYieldsHookOnly ==
    [][/\ Opens => (messages' = <<[role |-> "model", text |-> chatData'.hook]>>
                    /\ ~isTyping')
       /\ (last'.op = "handleSend" /\ last'.accepted) => messages # <<>>]_vars

IsBlank(s) == \A k \in 1 .. Len(s) : s[k] \in Whitespace

\* C6: submit with empty or whitespace-only text changes neither the
\* history nor the pending flag and issues no backend call.
BlankSubmitIsNoOp ==
    [][(last'.op = "handleSend" /\ IsBlank(inputValue))
        => (messages' = messages /\ isTyping' = isTyping /\ inflight' = inflight)]_vars

\* A whitespace-only text was submitted while a call was pending.
BlankSubmitSeen ==
    /\ last.op = "handleSend"
    /\ ~last.accepted
    /\ inputValue # <<>>
    /\ IsBlank(inputValue)
    /\ isTyping
    /\ inflight # EmptyBag

\* C7: when the call of an accepted submit(t) fails, the history ends with
\* {user, t} immediately followed by {model, fallback}, and pending is false.
FailureFollowsUserTurn ==
    [][(last'.op = "settle" /\ ~last'.result.ok /\ last'.standing = "current")
        => /\ Len(messages') >= 2
           /\ messages'[Len(messages') - 1].role = "user"
           /\ messages'[Len(messages')] = [role |-> "model", text |-> Fallback]
           /\ ~isTyping']_vars

\* C8: when the call of an accepted submit succeeds, exactly one model
\* message is appended, the reply text if it is non-empty and the
\* placeholder otherwise, and pending is false afterwards.
SuccessAppendsOneReply ==
    [][(last'.op = "settle" /\ last'.result.ok /\ last'.standing # "closed")
        => /\ messages' = Append(messages,
                [role |-> "model",
                 text |-> IF last'.result.defined /\ last'.result.text # <<>>
                          THEN last'.result.text ELSE Placeholder])
           /\ ~isTyping']_vars

\* A call succeeded without a text, and the placeholder closes the history.
PlaceholderSeen ==
    /\ last.op = "settle"
    /\ last.result.ok
    /\ ~last.result.defined
    /\ last.standing = "current"
    /\ Len(messages) >= 3
    /\ messages[Len(messages) - 1].role = "user"
    /\ messages[Len(messages)] = [role |-> "model", text |-> Placeholder]
    /\ ~isTyping

Calls == BagCardinality(inflight)

\* C9: the backend is never retried: a backend call is issued by an accepted
\* submit and by nothing else, one for each, and a settled call, failed or
\* not, leaves one call fewer in flight.
NoAutomaticRetry ==
    [][/\ Calls' > Calls => (last'.op = "handleSend" /\ last'.accepted)
       /\ (last'.op = "handleSend" /\ last'.accepted) => Calls' = Calls + 1
       /\ last'.op = "settle" => Calls' = Calls - 1]_vars

\* Every call failed: two submits, two fallback lines, nothing in flight.
AllCallsFailed ==
    /\ last.op = "settle"
    /\ ~last.result.ok
    /\ inflight = EmptyBag
    /\ Cardinality({k \in 1 .. Len(messages) : messages[k].role = "user"}) = 2
    /\ Cardinality({k \in 1 .. Len(messages) :
                        messages[k] = [role |-> "model", text |-> Fallback]}) = 2

\* C10: progressPercent of every feed item is a number in [0, 100] in every
\* reachable state, also after time updates that report duration 0 or an
\* unknown duration.
ProgressInRange ==
    \A i \in Items :
        /\ IsFinite(reel[i].progress)
        /\ JsLeq(Zero, reel[i].progress)
        /\ JsLeq(reel[i].progress, Num(100))

\* A time update reported 0 / 0, and progress is 0.
ZeroDurationUpdateSeen ==
    /\ view = "feed"
    /\ last.op = "timeUpdate"
    /\ IsZero(video[last.idx].duration)
    /\ IsZero(reel[last.idx].duration)
    /\ reel[last.idx].progress = Zero

\* C11: a seek to percent p on an item whose media has a finite duration d
\* leaves the media at time p/100 * d and progress at p in that same step.
SeekSetsTimeAndProgress ==
    [][(last'.op = "seek" /\ IsFinite(video[last'.idx].duration))
        => LET i == last'.idx
               t == video'[i].currentTime
               d == video[i].duration
               p == reel'[i].progress
           IN  /\ IsFinite(t)
               /\ t.n * 1000 * d.d = last'.value * d.n * t.d
               /\ IsFinite(p)
               /\ p.n * 10 = last'.value * p.d]_vars

\* A seek to the middle of the bar moved the media to the middle of its
\* duration, and progress shows it before any time update reported it.
SeekToMiddleSeen ==
    /\ view = "feed"
    /\ last.op = "seek"
    /\ last.value \notin {0, 1000}
    /\ video[last.idx].duration = Num(MediaDur)
    /\ video[last.idx].currentTime \notin {Zero, Num(MediaDur)}
    /\ reel[last.idx].progress = ParseFloat(last.value)
    /\ reel[last.idx].currentTime # video[last.idx].currentTime

\* C12: a seek on an item whose media duration is still unknown raises no
\* error, leaves the media at a numeric time and leaves progress a number.
SeekBeforeMetadataIsHarmless ==
    [][(last'.op = "seek" /\ IsNaN(video[last'.idx].duration))
        => /\ ~last'.threw
           /\ IsFinite(video'[last'.idx].currentTime)
           /\ IsFinite(reel'[last'.idx].progress)]_vars

\* C13: the mute button flips the one shared flag; in the feed every item's
\* element is muted exactly when the flag is set, also right after the
\* step that flips it; and that step leaves every item's loading, progress,
\* current time and paused state as they were.
MuteIsSharedAndFramed ==
    /\ [](view = "feed" => \A i \in Items : video[i].muted = isMuted)
    /\ [][last'.op = "toggleMute"
            => /\ isMuted' = ~isMuted
               /\ \A i \in Items :
                    /\ video'[i].muted = isMuted'
                    /\ video'[i].paused = video[i].paused
                    /\ video'[i].currentTime = video[i].currentTime
                    /\ reel'[i].loading = reel[i].loading
                    /\ reel'[i].progress = reel[i].progress
                    /\ reel'[i].isPlaying = reel[i].isPlaying]_vars

\* The feed was muted while an item had loaded, played on and shown its
\* progress: every element is muted and the item kept what it showed.
MutedMidPlayback ==
    /\ view = "feed"
    /\ last.op = "toggleMute"
    /\ isMuted
    /\ \A i \in Items : video[i].muted
    /\ \E i \in Items :
        /\ ~reel[i].loading
        /\ reel[i].progress # Zero
        /\ video[i].currentTime # Zero
        /\ ~video[i].paused

\* C14: a trigger tapped while no overlay is open starts a session whose
\* history is the new opening line alone, with pending false, an empty
\* input and a backend conversation of its own; and a call of a closed
\* session that settles later changes neither history nor pending flag.
OpenAfterCloseIsFresh ==
    [][/\ (last'.op = "enterStory" /\ ~panel)
            => /\ panel'
               /\ messages' = <<[role |-> "model", text |-> chatData'.hook]>>
               /\ ~isTyping'
               /\ inputValue' = <<>>
               /\ chatInstance' = [character |-> chatData'.char,
                                   episodeLabel |-> Episode(activeIdx).label]
       /\ (last'.op = "settle" /\ last'.standing = "closed")
            => (messages' = messages /\ isTyping' = isTyping)]_vars

\* A session was closed with a call unanswered, and the next session has
\* just opened on its opening line, not pending, the old call still out.
ReopenedWhileOldCallOut ==
    /\ last.op = "enterStory"
    /\ ~last.replaced
    /\ panel
    /\ BagIn(Unmounted(NewCall), inflight)
    /\ messages = <<OpeningLine(chatData)>>
    /\ ~isTyping

\* A step that activates an item: the feed mounts, or activeIdx changes.
Activates ==
    \/ last'.op = "enterFeed"
    \/ last'.op = "observe" /\ last'.idx # last'.prev

\* C15: when the environment denies the play() of an activation, no error
\* is left unhandled and the item's media stays paused; and a tap on an
\* item whose media is paused starts it.
DeniedAutoplayIsSwallowed ==
    [][/\ (Activates /\ ~last'.allowed)
            => (~last'.unhandled /\ video'[last'.idx].paused)
       /\ (last'.op = "togglePlay" /\ video[last'.idx].paused)
            => ~video'[last'.idx].paused]_vars

\* The active item, left paused by a denied autoplay while its controller
\* showed it as playing, was tapped and plays.
ResumedAfterDeniedAutoplay ==
    /\ view = "feed"
    /\ last.op = "togglePlay"
    /\ last.idx = activeIdx
    /\ last.wasPaused
    /\ last.shownPlaying
    /\ ~video[activeIdx].paused

\* The index of the last intersecting entry of a batch, or cur if it has none.
LastIntersecting(batch, cur) ==
    LET hits == {k \in 1 .. Len(batch) : batch[k].isIntersecting}
    IN  IF hits = {} THEN cur
        ELSE LET k == CHOOSE h \in hits : \A g \in hits : g <= h
             IN  CHOOSE i \in Items : DataIndex(i) = batch[k].target

\* C16: after an observation batch activeIdx is the index of the last entry
\* of the batch that is intersecting, and is what it was if none is; and
\* activeIdx is always the index of an episode.
LastIntersectingWins ==
    /\ [](activeIdx \in 0 .. (Len(HEART_BEATS_DATA.episodes) - 1))
    /\ [][last'.op = "observe"
            => activeIdx' = LastIntersecting(last'.batch, activeIdx)]_vars

\* A batch reported two different items as intersecting, and the one
\* reported last is active.
TwoIntersectingSeen ==
    /\ view = "feed"
    /\ last.op = "observe"
    /\ Len(last.batch) >= 2
    /\ last.batch[1].isIntersecting
    /\ last.batch[Len(last.batch)].isIntersecting
    /\ last.batch[1].target # last.batch[Len(last.batch)].target
    /\ DataIndex(activeIdx) = last.batch[Len(last.batch)].target
    /\ last.prev # activeIdx

\* C17: a tap on an item whose media is paused starts it and shows the
\* 'play' indicator; a tap on an item whose media is playing pauses it and
\* shows the 'pause' indicator; and the second of two taps in a row on an
\* item leaves its media as it was before the first.
ToggleFlipsAndShows ==
    [][last'.op = "togglePlay"
        => LET i == last'.idx
           IN  /\ video[i].paused
                    => (~video'[i].paused /\ reel'[i].showPlayIcon = "play")
               /\ ~video[i].paused
                    => (video'[i].paused /\ reel'[i].showPlayIcon = "pause")
               /\ last'.again => video'[i].paused = last.wasPaused]_vars

\* The playing active item was tapped twice in a row: it plays again and
\* shows 'play'.
ToggledTwiceSeen ==
    /\ view = "feed"
    /\ last.op = "togglePlay"
    /\ last.again
    /\ last.idx = activeIdx
    /\ last.wasPaused
    /\ ~last.shownPlaying
    /\ ~video[activeIdx].paused
    /\ reel[activeIdx].showPlayIcon = "play"

\* C18: every tap cancels the pending icon timeout of its item and
\* schedules a new one: an item has at most one timeout pending, the one
\* its latest tap scheduled; the timeout that fires is that one; and once
\* the taps have ended every indicator returns to none for good.
OneIconTimeoutPerItem ==
    /\ [](\A i \in Items : /\ Cardinality(timers[i]) <= 1
                            /\ timers[i] \subseteq {reel[i].iconTimeoutRef}
                            /\ reel[i].showPlayIcon # "null" => timers[i] # {})
    /\ [][last'.op = "togglePlay"
            => timers'[last'.idx] = {reel'[last'.idx].iconTimeoutRef}]_vars
    /\ [][last'.op = "iconTimeout"
            => last'.id = reel[last'.idx].iconTimeoutRef]_vars
    /\ (<>[][last'.op # "togglePlay"]_vars
            => <>[](\A i \in Items : reel[i].showPlayIcon = "null"))

\* A tap came while the timeout of the tap before it was pending: that
\* timeout is gone, the new one is the only one, and the indicator shows.
TapCancelledPendingTimeout ==
    /\ view = "feed"
    /\ last.op = "togglePlay"
    /\ last.again
    /\ last.cancelled
    /\ timers[last.idx] = {reel[last.idx].iconTimeoutRef}
    /\ reel[last.idx].showPlayIcon = "pause"

\* C19: a step that changes activeIdx away from an item leaves that item's
\* media paused, however it came to play; and the media of an item goes
\* from paused to playing only when the item becomes active or is tapped.
DeactivationPauses ==
    [][/\ (view = "feed" /\ view' = "feed" /\ activeIdx' # activeIdx)
            => video'[activeIdx].paused
       /\ \A i \in Items :
            (video[i].paused /\ ~video'[i].paused)
                => \/ last'.op = "togglePlay" /\ last'.idx = i
                   \/ last'.op = "enterFeed" /\ activeIdx' = i
                   \/ last'.op = "observe" /\ activeIdx # i /\ activeIdx' = i]_vars

\* An item paused and resumed by taps played on past the start; the feed
\* moved to another item, and the first is paused where it was.
ResumedItemPausedOnLeaving ==
    /\ view = "feed"
    /\ last.op = "observe"
    /\ last.idx # last.prev
    /\ activeIdx = last.idx
    /\ reel[last.prev].showPlayIcon = "play"
    /\ video[last.prev].currentTime # Zero
    /\ video[last.prev].paused
    /\ ~reel[last.prev].isPlaying

\* C20: while a session stays open (the overlay is mounted before and after
\* the step, on the same trigger) its context and its backend conversation
\* are what they were when it opened, and its history is not reset, also
\* when the step changes activeIdx.
ContextFixedWhileOpen ==
    [][(panel /\ panel' /\ chatData' = chatData)
        => /\ chatInstance' = chatInstance
           /\ Len(messages') >= Len(messages)
           /\ SubSeq(messages', 1, Len(messages)) = messages]_vars

\* C21: a step that leaves the session open (the overlay stays mounted on
\* the same trigger) keeps the history it found as a prefix of the history
\* it leaves, and the first message of an open session is its opening line.
HistoryAppendOnly ==
    /\ [](panel => (messages # <<>> /\ messages[1] = OpeningLine(chatData)))
    /\ [][(panel /\ panel' /\ chatData' = chatData)
            => /\ Len(messages') >= Len(messages)
               /\ \A k \in 1 .. Len(messages) : messages'[k] = messages[k]]_vars

\* The calls of the open session that are unanswered: those sent on the
\* conversation that is chatInstance.current of the mounted overlay.
OwnCalls == {c \in BagToSet(inflight) : c.mounted /\ c.current}

\* C22: while a session is open, pending is true exactly when a call that
\* session issued is unanswered.
PendingIffCallInFlight == panel => (isTyping <=> OwnCalls # {})

\* The triggers a session can be opened on.
TriggerData ==
    {[char |-> Episode(i).triggers[k].char, hook |-> Episode(i).triggers[k].hook] :
        i \in Items, k \in 1 .. 2}

\* C23: if the backend answers every call, an accepted submit that put the
\* user's message at place k of the history of the session on trigger cd
\* leads to the session being closed or replaced by a trigger, or to a
\* state in which that user message is followed by a model message and
\* pending is false.
SubmitLeadsToReply ==
    \A cd \in TriggerData : \A k \in 2 .. MaxMessages :
        (panel /\ chatData = cd /\ last.op = "handleSend" /\ last.accepted
               /\ Len(messages) = k)
            ~> \/ ~panel
               \/ chatData # cd
               \/ /\ Len(messages) > k
                  /\ messages[k].role = "user"
                  /\ \E j \in (k + 1) .. Len(messages) : messages[j].role = "model"
                  /\ ~isTyping

\* C24: a trigger tapped while a session is open leaves the history at the
\* opening line of that trigger alone and pending false, be it the trigger
\* of the open session or another, with or without a call unanswered.
TriggerReplacesOpenSession ==
    [][(last'.op = "enterStory" /\ panel)
        => /\ panel'
           /\ messages' = <<[role |-> "model", text |-> chatData'.hook]>>
           /\ ~isTyping']_vars

\* The opening lines of the triggers of item i.
Hooks(i) == {Episode(i).triggers[k].hook : k \in Triggers(i)}

\* C25: after a tap on a trigger of a feed item, the opening line of the
\* session and the episode label of its context belong to one episode.
LabelMatchesTappedEpisode ==
    [][last'.op = "enterStory"
        => \E i \in Items : /\ chatData'.hook \in Hooks(i)
                            /\ chatInstance'.episodeLabel = Episode(i).label]_vars

\* C26: an observation batch that selects the active item leaves every
\* item's media and controller as they were; and while the feed is shown
\* and activeIdx stays, the active item's media goes from paused to playing
\* by a tap on it and by nothing else.
ReobservationChangesNothing ==
    [][/\ (last'.op = "observe" /\ activeIdx' = activeIdx)
            => (video' = video /\ reel' = reel)
       /\ (view = "feed" /\ activeIdx' = activeIdx
              /\ video[activeIdx].paused /\ ~video'[activeIdx].paused)
            => (last'.op = "togglePlay" /\ last'.idx = activeIdx)]_vars

\* The active item was paused by a tap part-way through, and a batch then
\* selected it again: it is paused where it was.
PausedItemReobserved ==
    /\ view = "feed"
    /\ last.op = "observe"
    /\ last.idx = last.prev
    /\ activeIdx = last.idx
    /\ video[activeIdx].paused
    /\ video[activeIdx].currentTime # Zero
    /\ reel[activeIdx].showPlayIcon = "pause"
    /\ ~reel[activeIdx].isPlaying

\* C27: a chat session is open only while the feed is shown; a session is
\* opened by a trigger of a feed item and by nothing else; and the step
\* that returns to the home view closes the session.
ChatOnlyInFeed ==
    /\ []((panel \/ chatData # NoChatData) => view = "feed")
    /\ [][(~panel /\ panel') => (last'.op = "enterStory" /\ view = "feed")]_vars
    /\ [][last'.op = "goHome"
            => (view' = "home" /\ ~panel' /\ chatData' = NoChatData)]_vars

\* The viewer went home while a session was open with a call unanswered:
\* the home view is shown, no session is open, the call is still out.
WentHomeDuringSession ==
    /\ last.op = "goHome"
    /\ view = "home"
    /\ ~panel
    /\ chatData = NoChatData
    /\ BagIn(Unmounted(NewCall), inflight)

====
